---- MODULE Spec2Model ----
\* State-machine model of the client session engine (CClient) of
\* src/src/lib/client/CClient.cpp.  Every event handler runs to completion on
\* the single event-loop thread, so each handler is one atomic action.  The
\* body of a handler is a composition of operators over a record `s` holding
\* the member fields, written in the order of the statements of the source.
EXTENDS Integers, Sequences, FiniteSets, TLC

VARIABLES
    m_stream,           \* m_stream != NULL
    m_timer,            \* m_timer != NULL
    m_server,           \* m_server != NULL
    m_ready,
    m_active,
    m_suspended,
    m_connectOnResume,
    m_ownClipboard,     \* [Slots -> BOOLEAN]
    m_sentClipboard,    \* [Slots -> BOOLEAN]
    m_timeClipboard,    \* [Slots -> 0..MaxClipTime]
    m_dataClipboard,    \* [Slots -> marshalled payload]
    marshalled,         \* per slot, the payload sendClipboard marshalled last
    handlers,           \* the event queue's handler table: event key -> job
    sock,               \* the transport under the pipeline: none/connecting/connected
    screenEnabled,      \* m_screen->enable() / disable()
    addrNetwork,        \* m_serverAddress->getAddressType() == Network
    liveStreams,        \* pipelines created and not yet deleted
    liveTimers,         \* timers created and not yet deleted
    life,               \* the session object: running, destroyed or crashed
    last,               \* the handler that ran last, with its inputs
    from,               \* the phase in which that handler found the session
    log,                \* the calls made by the handler that ran last, in order
    out,                \* the lifecycle events queued by the handler that ran last
    fwd,                \* the calls the handler that ran last made on m_server
    failed              \* the assertions whose condition was false in that handler

vars == << m_stream, m_timer, m_server, m_ready, m_active, m_suspended,
           m_connectOnResume, m_ownClipboard, m_sentClipboard, m_timeClipboard,
           m_dataClipboard, marshalled,
           handlers, sock, screenEnabled, addrNetwork, liveStreams, liveTimers,
           life, last, from, log, out, fwd, failed >>

----------------------------------------------------------------------------
\* Bounds of the model.

\* Hello versions are drawn from 0..MaxMajor x 0..MaxMinor.
MaxMajor == 2
MaxMinor == 7
\* Clipboard timestamps: those the screen reports and those an uninitialised
\* m_timeClipboard entry may hold.
MaxClipTime == 1
\* A clipboard holds no format or one text drawn from 1..MaxText.
MaxText == 1

\* Program constants.
kProtocolMajorVersion == 1
kProtocolMinorVersion == 6
kClipboardEnd == 2

Slots == 0 .. (kClipboardEnd - 1)

----------------------------------------------------------------------------
\* Clipboards.  The contents of a clipboard are the sequence of its formats;
\* marshall() writes the number of formats and then each format.

Times    == 0 .. MaxClipTime
Contents == {<< >>} \cup {<< x >> : x \in 1 .. MaxText}

Marshall(contents) == << Len(contents) >> \o contents

\* What m_screen->getClipboard() hands back: the time and the contents of the
\* screen's clipboard at the moment of the call.
ScreenClipboards == [time : Times, data : Contents]
NoClipboard      == [time |-> 0, data |-> << >>]

\* a default-constructed CString
EmptyString == << >>

\* no payload has been marshalled for the slot yet
NeverMarshalled == << -1 >>

----------------------------------------------------------------------------
\* The event queue's handler table.  adoptHandler(type, target, job) stores
\* the job under (type, target), replacing any job already there;
\* removeHandler(type, target) clears the entry.  Screen events are keyed by
\* type (one screen target), stream events by type (one stream target), the
\* timer event by the timer.

ScreenCtorKeys == {"suspend", "resume", "gameDeviceTimingResp", "gameDeviceFeedback"}
ConnectingKeys == {"connected", "connectionFailed"}
ConnectionKeys == {"disconnected", "inputReady", "outputError",
                   "inputShutdown", "outputShutdown"}
ScreenKeys     == {"shapeChanged", "clipboardGrabbed"}
TimerKeys      == {"timer"}
EventKeys      == ScreenCtorKeys \cup ConnectingKeys \cup ConnectionKeys
                    \cup ScreenKeys \cup TimerKeys

NoHandler == "none"

adoptHandler(s, key, job) == [s EXCEPT !.handlers[key] = job]
removeHandler(s, key)     == [s EXCEPT !.handlers[key] = NoHandler]

call(s, name) == [s EXCEPT !.log = Append(@, name)]

\* assert(cond): the condition is evaluated and a false one is recorded
assert(s, cond, name) == IF cond THEN s ELSE [s EXCEPT !.failed = @ \cup {name}]

----------------------------------------------------------------------------
\* Lifecycle events.

NoVer == << >>
Event(type, msg, ver, retry) == [type |-> type, msg |-> msg, ver |-> ver, retry |-> retry]

sendEvent(s, type) ==
    [call(s, "emit") EXCEPT !.out = Append(@, Event(type, "", NoVer, FALSE))]

sendConnectionFailedEvent(s, msg, ver) ==
    [call(s, "emit") EXCEPT !.out = Append(@, Event("ConnectionFailed", msg, ver, TRUE))]

----------------------------------------------------------------------------
\* The server proxy (CServerProxy).  Its constructor takes over the stream's
\* input-ready event, so that it parses every frame after the Hello; its
\* destructor gives the event up.

CServerProxy_new(s) ==
    adoptHandler(s, "inputReady", "CServerProxy::handleData")

CServerProxy_delete(s) ==
    removeHandler(s, "inputReady")

\* A call on m_server: the proxy writes the matching message to the stream.
ServerCall(name, id, data) == [call |-> name, id |-> id, data |-> data]

forward(s, msg) == [call(s, msg.call) EXCEPT !.fwd = Append(@, msg)]

----------------------------------------------------------------------------
\* setup... and cleanup...

deleteStream(s) ==
    \* delete m_stream; m_stream = NULL;   (delete of NULL does nothing)
    [call(s, "deleteStream") EXCEPT
        !.liveStreams = IF s.stream THEN @ - 1 ELSE @,
        !.stream      = FALSE,
        !.sock        = "none"]

setupConnecting(s) ==
    LET s0 == assert(call(s, "setupConnecting"), s.stream, "setupConnecting")
    IN  adoptHandler(adoptHandler(s0, "connected", "handleConnected"),
                     "connectionFailed", "handleConnectionFailed")

setupConnection(s) ==
    LET s0 == assert(call(s, "setupConnection"), s.stream, "setupConnection")
        s1 == adoptHandler(s0, "disconnected",   "handleDisconnected")
        s2 == adoptHandler(s1, "inputReady",     "handleHello")
        s3 == adoptHandler(s2, "outputError",    "handleOutputError")
        s4 == adoptHandler(s3, "inputShutdown",  "handleDisconnected")
    IN  adoptHandler(s4, "outputShutdown", "handleDisconnected")

setupScreen(s) ==
    LET sa == assert(call(s, "setupScreen"), ~s.server, "setupScreen")
        s0 == [sa EXCEPT !.ready = FALSE, !.server = TRUE]
        s1 == CServerProxy_new(s0)
        s2 == adoptHandler(s1, "shapeChanged", "handleShapeChanged")
    IN  adoptHandler(s2, "clipboardGrabbed", "handleClipboardGrabbed")

setupTimer(s) ==
    LET s0 == assert(call(s, "setupTimer"), ~s.timer, "setupTimer")
    IN  adoptHandler([s0 EXCEPT !.timer = TRUE, !.liveTimers = @ + 1],
                     "timer", "handleConnectTimeout")

cleanupConnecting(s) ==
    LET s0 == call(s, "cleanupConnecting")
    IN  IF s0.stream
        THEN removeHandler(removeHandler(s0, "connected"), "connectionFailed")
        ELSE s0

cleanupConnection(s) ==
    LET s0 == call(s, "cleanupConnection")
    IN  IF s0.stream
        THEN LET s1 == removeHandler(s0, "inputReady")
                 s2 == removeHandler(s1, "outputError")
                 s3 == removeHandler(s2, "inputShutdown")
                 s4 == removeHandler(s3, "outputShutdown")
                 s5 == removeHandler(s4, "disconnected")
             IN  [s5 EXCEPT !.liveStreams = @ - 1,
                            !.stream      = FALSE,
                            !.sock        = "none"]
        ELSE s0

\* cleanupScreen that deletes the proxy but leaves m_server set
cleanupScreen_keepsPointer(s) ==
    LET s0 == call(s, "cleanupScreen")
    IN  IF s0.server
        THEN LET s1 == IF s0.ready
                       THEN [s0 EXCEPT !.screenEnabled = FALSE, !.ready = FALSE]
                       ELSE s0
                 s2 == removeHandler(s1, "shapeChanged")
                 s3 == removeHandler(s2, "clipboardGrabbed")
             IN  CServerProxy_delete(s3)
        ELSE s0

cleanupScreen(s) ==
    LET s0 == call(s, "cleanupScreen")
    IN  IF s0.server
        THEN LET s1 == IF s0.ready
                       THEN [s0 EXCEPT !.screenEnabled = FALSE, !.ready = FALSE]
                       ELSE s0
                 s2 == removeHandler(s1, "shapeChanged")
                 s3 == removeHandler(s2, "clipboardGrabbed")
             IN  [CServerProxy_delete(s3) EXCEPT !.server = FALSE]
        ELSE s0

\* cleanupTimer that removes the handler and the timer but leaves m_timer set
cleanupTimer_keepsPointer(s) ==
    LET s0 == call(s, "cleanupTimer")
    IN  IF s0.timer
        THEN [removeHandler(s0, "timer") EXCEPT !.liveTimers = @ - 1]
        ELSE s0

cleanupTimer(s) ==
    LET s0 == call(s, "cleanupTimer")
    IN  IF s0.timer
        THEN [removeHandler(s0, "timer") EXCEPT
                 !.timer = FALSE, !.liveTimers = @ - 1]
        ELSE s0

----------------------------------------------------------------------------
\* connect() and disconnect()

\* The pipeline (transport, optional filter, packet framer, optional crypto
\* layer) is one object chain owned through m_stream.
buildPipeline(s) ==
    [call(s, "buildPipeline") EXCEPT !.stream = TRUE, !.liveStreams = @ + 1]

\* a catch block that leaves the connect handlers registered
connectCatch_noCleanupConnecting(s, what) ==
    sendConnectionFailedEvent(deleteStream(cleanupTimer(s)), what, NoVer)

\* catch (XBase& e)
connectCatch(s, what) ==
    sendConnectionFailedEvent(
        deleteStream(cleanupConnecting(cleanupTimer(s))), what, NoVer)

\* What the try block of connect() may meet: the resolver throws, the
\* transport factory throws, the filter factory throws (m_stream holds the
\* socket by then), socket->connect() throws, or nothing throws.
ConnectOutcomes(network) ==
    {"ok", "createThrows", "filterThrows", "connectThrows"}
        \cup (IF network THEN {"resolveThrows"} ELSE {})

connectTry(s, outcome) ==
    LET s0 == call(s, "try")
    IN  IF outcome = "resolveThrows" THEN connectCatch(s0, "resolve failed")
        ELSE IF outcome = "createThrows" THEN connectCatch(s0, "create failed")
        ELSE IF outcome = "filterThrows"
        THEN connectCatch(buildPipeline(s0), "filter failed")
        ELSE LET s1 == setupTimer(setupConnecting(buildPipeline(s0)))
                 s2 == call(s1, "socket.connect")
             IN  IF outcome = "connectThrows"
                 THEN connectCatch(s2, "connect failed")
                 ELSE [s2 EXCEPT !.sock = "connecting"]

\* connect() without the m_stream != NULL guard
connect_noStreamGuard(s, outcome) ==
    IF s.suspended THEN [s EXCEPT !.connectOnResume = TRUE]
    ELSE connectTry(s, outcome)

\* connect() that returns while suspended without recording the request
connect_suspendedForgets(s, outcome) ==
    IF s.stream THEN s
    ELSE IF s.suspended THEN s
    ELSE connectTry(s, outcome)

\* connect() without the m_suspended guard
connect_noSuspendGuard(s, outcome) ==
    IF s.stream THEN s
    ELSE connectTry(s, outcome)

\* connect() that reports a failure when called while suspended
connect_suspendedReportsFailure(s, outcome) ==
    IF s.stream THEN s
    ELSE IF s.suspended
    THEN sendConnectionFailedEvent([s EXCEPT !.connectOnResume = TRUE],
                                   "suspended", NoVer)
    ELSE connectTry(s, outcome)

connect(s, outcome) ==
    IF s.stream THEN s
    ELSE IF s.suspended THEN [s EXCEPT !.connectOnResume = TRUE]
    ELSE connectTry(s, outcome)

\* disconnect() that leaves the server proxy alive
disconnect_keepsProxy(s, hasMsg) ==
    LET s0 == [s EXCEPT !.connectOnResume = FALSE]
        s1 == cleanupConnection(cleanupConnecting(cleanupTimer(s0)))
    IN  IF hasMsg
        THEN sendConnectionFailedEvent(s1, "msg", NoVer)
        ELSE sendEvent(s1, "Disconnected")

disconnect(s, hasMsg) ==
    LET s0 == [s EXCEPT !.connectOnResume = FALSE]
        s1 == cleanupConnection(cleanupConnecting(cleanupScreen(cleanupTimer(s0))))
    IN  IF hasMsg
        THEN sendConnectionFailedEvent(s1, "msg", NoVer)
        ELSE sendEvent(s1, "Disconnected")

\* handshakeComplete() that does not enable the screen
handshakeComplete_noEnable(s) ==
    sendEvent([call(s, "handshakeComplete") EXCEPT !.ready = TRUE], "Connected")

handshakeComplete(s) ==
    sendEvent([call(s, "handshakeComplete") EXCEPT
                   !.ready = TRUE, !.screenEnabled = TRUE],
              "Connected")

----------------------------------------------------------------------------
\* Event handlers

handleConnected(s) ==
    LET s0 == setupConnection(cleanupConnecting(s))
    IN  [s0 EXCEPT !.own  = [id \in Slots |-> FALSE],
                   !.sent = [id \in Slots |-> FALSE],
                   !.time = [id \in Slots |-> 0],
                   !.sock = "connected"]

handleConnectionFailed(s, what) ==
    sendConnectionFailedEvent(
        deleteStream(cleanupConnecting(cleanupTimer(s))), what, NoVer)

\* a timeout handler that deletes the stream without cleanupConnection()
handleConnectTimeout_noCleanupConnection(s) ==
    sendConnectionFailedEvent(
        deleteStream(cleanupConnecting(cleanupTimer(s))), "Timed out", NoVer)

handleConnectTimeout(s) ==
    sendConnectionFailedEvent(
        deleteStream(cleanupConnection(cleanupConnecting(cleanupTimer(s)))),
        "Timed out", NoVer)

\* an output error reported as a failed connection
handleOutputError_emitsFailed(s) ==
    sendConnectionFailedEvent(
        cleanupConnection(cleanupScreen(cleanupTimer(s))), "output error", NoVer)

handleOutputError(s) ==
    sendEvent(cleanupConnection(cleanupScreen(cleanupTimer(s))), "Disconnected")

\* a disconnect handler that leaves the server proxy alive
handleDisconnected_noCleanupScreen(s) ==
    sendEvent(cleanupConnection(cleanupTimer(s)), "Disconnected")

handleDisconnected(s) ==
    sendEvent(cleanupConnection(cleanupScreen(cleanupTimer(s))), "Disconnected")

\* a field-by-field version comparison
versionTooOld_fieldwise(major, minor) ==
    major < kProtocolMajorVersion \/ minor < kProtocolMinorVersion

\* major < kProtocolMajorVersion ||
\* (major == kProtocolMajorVersion && minor < kProtocolMinorVersion)
versionTooOld(major, minor) ==
    \/ major < kProtocolMajorVersion
    \/ (major = kProtocolMajorVersion /\ minor < kProtocolMinorVersion)

\* frame.ok is the result of CProtocolUtil::readf(m_stream, kMsgHello, ...);
\* isReady is m_stream->isReady() after the HelloBack was written.
handleHello(s, frame, isReady) ==
    IF ~frame.ok
    THEN cleanupConnection(cleanupTimer(
             sendConnectionFailedEvent(s, "Protocol error from server", NoVer)))
    ELSE IF versionTooOld(frame.major, frame.minor)
    THEN cleanupConnection(cleanupTimer(
             sendConnectionFailedEvent(s, "incompatible version",
                                       << frame.major, frame.minor >>)))
    ELSE LET s0 == call(s, "writeHelloBack")
             s1 == cleanupTimer(setupScreen(s0))
         IN  IF isReady THEN call(s1, "addEvent inputReady") ELSE s1

\* a suspend handler that does not restore the flag disconnect() cleared
handleSuspend_flagLost(s) ==
    disconnect([s EXCEPT !.suspended = TRUE], FALSE)

handleSuspend(s) ==
    LET s0 == [s EXCEPT !.suspended = TRUE]
        wasConnected == s0.server
        s1 == disconnect(s0, FALSE)
    IN  [s1 EXCEPT !.connectOnResume = wasConnected]

handleResume(s, outcome) ==
    LET s0 == [s EXCEPT !.suspended = FALSE]
    IN  IF s0.connectOnResume
        THEN connect([s0 EXCEPT !.connectOnResume = FALSE], outcome)
        ELSE s0

handleShapeChanged(s) ==
    forward(s, ServerCall("onInfoChanged", 0, << >>))

handleGameDeviceTimingResp(s) ==
    forward(s, ServerCall("onGameDeviceTimingResp", 0, << >>))

handleGameDeviceFeedback(s) ==
    forward(s, ServerCall("onGameDeviceFeedback", 0, << >>))

----------------------------------------------------------------------------
\* The clipboard tracker and the calls of the server proxy.

\* sendClipboard that sends whenever the time is new, without comparing
sendClipboard_noCompare(s, id, clipboard) ==
    LET s0 == assert(call(s, "sendClipboard"), s.server, "sendClipboard")
    IN  IF s0.time[id] = 0 \/ clipboard.time # s0.time[id]
        THEN LET data == Marshall(clipboard.data)
                 s1 == [s0 EXCEPT !.time[id] = clipboard.time,
                                  !.marshalled[id] = data]
             IN  forward([s1 EXCEPT !.sent[id] = TRUE, !.data[id] = data],
                         ServerCall("onClipboardChanged", id, data))
        ELSE s0

\* sendClipboard that marks the slot sent without saving the payload
sendClipboard_dataNotSaved(s, id, clipboard) ==
    LET s0 == assert(call(s, "sendClipboard"), s.server, "sendClipboard")
    IN  IF s0.time[id] = 0 \/ clipboard.time # s0.time[id]
        THEN LET data == Marshall(clipboard.data)
                 s1 == [s0 EXCEPT !.time[id] = clipboard.time,
                                  !.marshalled[id] = data]
             IN  IF ~s1.sent[id] \/ data # s1.data[id]
                 THEN forward([s1 EXCEPT !.sent[id] = TRUE],
                              ServerCall("onClipboardChanged", id, data))
                 ELSE s1
        ELSE s0

\* `clipboard` is what m_screen->getClipboard(id, &clipboard) fetches
sendClipboard(s, id, clipboard) ==
    LET s0 == assert(call(s, "sendClipboard"), s.server, "sendClipboard")
    IN  IF s0.time[id] = 0 \/ clipboard.time # s0.time[id]
        THEN LET data == Marshall(clipboard.data)
                 s1 == [s0 EXCEPT !.time[id] = clipboard.time,
                                  !.marshalled[id] = data]
             IN  IF ~s1.sent[id] \/ data # s1.data[id]
                 THEN forward([s1 EXCEPT !.sent[id] = TRUE, !.data[id] = data],
                              ServerCall("onClipboardChanged", id, data))
                 ELSE s1
        ELSE s0

enter(s) ==
    call(call([s EXCEPT !.active = TRUE], "screen.mouseMove"), "screen.enter")

RECURSIVE leaveFrom(_, _, _)
\* for (ClipboardID id = ...; id < kClipboardEnd; ++id)
leaveFrom(s, id, clips) ==
    IF id >= kClipboardEnd THEN s
    ELSE leaveFrom(IF s.own[id] THEN sendClipboard(s, id, clips[id]) ELSE s,
                   id + 1, clips)

leave(s, clips) ==
    leaveFrom([call(s, "screen.leave") EXCEPT !.active = FALSE], 0, clips)

\* setClipboard that leaves the sent flag alone
setClipboard_keepsSent(s, id) ==
    [call(s, "screen.setClipboard") EXCEPT !.own[id] = FALSE]

setClipboard(s, id) ==
    [call(s, "screen.setClipboard") EXCEPT !.own[id] = FALSE, !.sent[id] = FALSE]

grabClipboard(s, id) ==
    [call(s, "screen.grabClipboard") EXCEPT !.own[id] = FALSE, !.sent[id] = FALSE]

\* handleClipboardGrabbed that does not reset the time of the slot
handleClipboardGrabbed_keepsTime(s, id, clipboard) ==
    LET s0 == forward(s, ServerCall("onGrabClipboard", id, << >>))
        s1 == [s0 EXCEPT !.own[id] = TRUE, !.sent[id] = FALSE]
    IN  IF ~s1.active THEN sendClipboard(s1, id, clipboard) ELSE s1

handleClipboardGrabbed(s, id, clipboard) ==
    LET s0 == forward(s, ServerCall("onGrabClipboard", id, << >>))
        s1 == [s0 EXCEPT !.own[id] = TRUE, !.sent[id] = FALSE, !.time[id] = 0]
    IN  IF ~s1.active THEN sendClipboard(s1, id, clipboard) ELSE s1

\* ~CClient(); m_mock is false for a session built by this constructor
destructor(s) ==
    LET s0 == removeHandler(removeHandler(s, "suspend"), "resume")
    IN  cleanupConnection(cleanupConnecting(cleanupScreen(cleanupTimer(s0))))

----------------------------------------------------------------------------
\* The state machine.

\* The member fields as a handler finds them; log and out start empty.
Cur ==
    [stream |-> m_stream, timer |-> m_timer, server |-> m_server,
     ready |-> m_ready, active |-> m_active, suspended |-> m_suspended,
     connectOnResume |-> m_connectOnResume,
     own |-> m_ownClipboard, sent |-> m_sentClipboard, time |-> m_timeClipboard,
     data |-> m_dataClipboard, marshalled |-> marshalled,
     handlers |-> handlers, sock |-> sock, screenEnabled |-> screenEnabled,
     liveStreams |-> liveStreams, liveTimers |-> liveTimers,
     log |-> << >>, out |-> << >>, fwd |-> << >>, failed |-> {}]

\* The phase of the connection state machine the session is in.
Phase ==
    IF m_server THEN "Active"
    ELSE IF ~m_stream THEN "Idle"
    ELSE IF sock = "connected" THEN "AwaitingHello"
    ELSE "Connecting"

\* A member function runs on a live object and leaves it in state `then`.
Finish(s, l, then) ==
    /\ life = "running"
    /\ life' = then
    /\ m_stream' = s.stream
    /\ m_timer' = s.timer
    /\ m_server' = s.server
    /\ m_ready' = s.ready
    /\ m_active' = s.active
    /\ m_suspended' = s.suspended
    /\ m_connectOnResume' = s.connectOnResume
    /\ m_ownClipboard' = s.own
    /\ m_sentClipboard' = s.sent
    /\ m_timeClipboard' = s.time
    /\ m_dataClipboard' = s.data
    /\ marshalled' = s.marshalled
    /\ handlers' = s.handlers
    /\ sock' = s.sock
    /\ screenEnabled' = s.screenEnabled
    /\ liveStreams' = s.liveStreams
    /\ liveTimers' = s.liveTimers
    /\ log' = s.log
    /\ out' = s.out
    /\ fwd' = s.fwd
    /\ failed' = s.failed
    /\ last' = l
    /\ from' = Phase
    /\ UNCHANGED addrNetwork

Commit(s, l) == Finish(s, l, "running")

\* The handler that ran, with the inputs it was given (fields that do not
\* apply to a handler keep the values below).
Ran(op) ==
    [op |-> op, key |-> "", outcome |-> "", hasMsg |-> FALSE,
     ok |-> FALSE, major |-> 0, minor |-> 0, isReady |-> FALSE, id |-> 0,
     clips |-> [i \in Slots |-> NoClipboard], wasOwned |-> FALSE]

Frames ==
    {[ok |-> FALSE, major |-> 0, minor |-> 0]}
        \cup [ok : {TRUE}, major : 0 .. MaxMajor, minor : 0 .. MaxMinor]

Init ==
    /\ m_stream = FALSE
    /\ m_timer = FALSE
    /\ m_server = FALSE
    /\ m_ready = FALSE
    /\ m_active = FALSE
    /\ m_suspended = FALSE
    /\ m_connectOnResume = FALSE
    \* the constructor does not initialise the clipboard arrays
    /\ m_ownClipboard \in [Slots -> BOOLEAN]
    /\ m_sentClipboard \in [Slots -> BOOLEAN]
    /\ m_timeClipboard \in [Slots -> Times]
    /\ m_dataClipboard = [id \in Slots |-> EmptyString]
    /\ marshalled = [id \in Slots |-> NeverMarshalled]
    /\ handlers = [k \in EventKeys |->
                    CASE k = "suspend" -> "handleSuspend"
                      [] k = "resume" -> "handleResume"
                      [] k = "gameDeviceTimingResp" -> "handleGameDeviceTimingResp"
                      [] k = "gameDeviceFeedback" -> "handleGameDeviceFeedback"
                      [] OTHER -> NoHandler]
    /\ sock = "none"
    /\ screenEnabled = FALSE
    /\ addrNetwork \in BOOLEAN
    /\ liveStreams = 0
    /\ liveTimers = 0
    /\ life = "running"
    /\ last = Ran("CClient")
    /\ from = "Idle"
    /\ log = << >>
    /\ out = << >>
    /\ fwd = << >>
    /\ failed = {}

\* connect(), called by the application at any time
Connect ==
    \E outcome \in ConnectOutcomes(addrNetwork) :
        Commit(connect(Cur, outcome), [Ran("connect") EXCEPT !.outcome = outcome])

\* disconnect(msg), called by the application at any time
Disconnect ==
    \E hasMsg \in BOOLEAN :
        Commit(disconnect(Cur, hasMsg), [Ran("disconnect") EXCEPT !.hasMsg = hasMsg])

\* the server proxy reports the end of the handshake
HandshakeComplete ==
    /\ m_server
    /\ handlers["inputReady"] = "CServerProxy::handleData"
    /\ ~m_ready
    /\ Commit(handshakeComplete(Cur), Ran("handshakeComplete"))

HandleConnected ==
    /\ handlers["connected"] = "handleConnected"
    /\ sock = "connecting"
    /\ Commit(handleConnected(Cur), Ran("handleConnected"))

HandleConnectionFailed ==
    /\ handlers["connectionFailed"] = "handleConnectionFailed"
    /\ sock = "connecting"
    /\ Commit(handleConnectionFailed(Cur, "refused"), Ran("handleConnectionFailed"))

HandleConnectTimeout ==
    /\ handlers["timer"] = "handleConnectTimeout"
    /\ Commit(handleConnectTimeout(Cur), Ran("handleConnectTimeout"))

HandleOutputError ==
    /\ handlers["outputError"] = "handleOutputError"
    /\ Commit(handleOutputError(Cur), Ran("handleOutputError"))

HandleDisconnected ==
    \E key \in {"disconnected", "inputShutdown", "outputShutdown"} :
        /\ handlers[key] = "handleDisconnected"
        /\ Commit(handleDisconnected(Cur), [Ran("handleDisconnected") EXCEPT !.key = key])

HandleHello ==
    /\ handlers["inputReady"] = "handleHello"
    /\ \E frame \in Frames, isReady \in BOOLEAN :
        Commit(handleHello(Cur, frame, isReady),
               [Ran("handleHello") EXCEPT !.ok = frame.ok, !.major = frame.major,
                                          !.minor = frame.minor, !.isReady = isReady])

HandleSuspend ==
    /\ handlers["suspend"] = "handleSuspend"
    /\ Commit(handleSuspend(Cur), Ran("handleSuspend"))

HandleResume ==
    /\ handlers["resume"] = "handleResume"
    /\ \E outcome \in ConnectOutcomes(addrNetwork) :
        Commit(handleResume(Cur, outcome), [Ran("handleResume") EXCEPT !.outcome = outcome])

\* What a member call through a null m_server may do: the program dies on the
\* access to the proxy's fields, or the call returns without effect.
NullCallOutcomes == {"crash", "noEffect"}

\* m_server->f() as the build runs it: the call when the proxy exists, one of
\* the outcomes of a call through a null pointer when it does not.
ThroughServer(s, l) ==
    IF m_server
    THEN Commit(s, l)
    ELSE \E outcome \in NullCallOutcomes :
            Finish(Cur, [l EXCEPT !.outcome = outcome],
                   IF outcome = "crash" THEN "crashed" ELSE "running")

HandleGameDeviceTimingResp ==
    /\ handlers["gameDeviceTimingResp"] = "handleGameDeviceTimingResp"
    /\ ThroughServer(handleGameDeviceTimingResp(Cur), Ran("handleGameDeviceTimingResp"))

HandleGameDeviceFeedback ==
    /\ handlers["gameDeviceFeedback"] = "handleGameDeviceFeedback"
    /\ ThroughServer(handleGameDeviceFeedback(Cur), Ran("handleGameDeviceFeedback"))

HandleShapeChanged ==
    /\ handlers["shapeChanged"] = "handleShapeChanged"
    /\ ThroughServer(handleShapeChanged(Cur), Ran("handleShapeChanged"))

\* The screen's answers to getClipboard() for the slots a handler asks about.
AskedOf(ids) ==
    {clips \in [Slots -> ScreenClipboards] :
        \A i \in Slots \ ids : clips[i] = NoClipboard}

HandleClipboardGrabbed ==
    /\ handlers["clipboardGrabbed"] = "handleClipboardGrabbed"
    /\ \E id \in Slots :
        \E clips \in AskedOf({i \in Slots : i = id /\ ~m_active}) :
            ThroughServer(handleClipboardGrabbed(Cur, id, clips[id]),
                          [Ran("handleClipboardGrabbed") EXCEPT
                              !.id = id, !.clips = clips,
                              !.wasOwned = m_ownClipboard[id]])

\* The server proxy calls the dispatcher while it parses the server's
\* messages, so a proxy exists.
Enter ==
    /\ m_server
    /\ Commit(enter(Cur), Ran("enter"))

Leave ==
    /\ m_server
    /\ \E clips \in AskedOf({i \in Slots : m_ownClipboard[i]}) :
        Commit(leave(Cur, clips), [Ran("leave") EXCEPT !.clips = clips])

SetClipboard ==
    /\ m_server
    /\ \E id \in Slots :
        Commit(setClipboard(Cur, id), [Ran("setClipboard") EXCEPT !.id = id])

GrabClipboard ==
    /\ m_server
    /\ \E id \in Slots :
        Commit(grabClipboard(Cur, id), [Ran("grabClipboard") EXCEPT !.id = id])

\* the application destroys the session
Destroy ==
    Finish(destructor(Cur), Ran("~CClient"), "destroyed")

Next ==
    \/ Connect
    \/ Disconnect
    \/ HandshakeComplete
    \/ HandleConnected
    \/ HandleConnectionFailed
    \/ HandleConnectTimeout
    \/ HandleOutputError
    \/ HandleDisconnected
    \/ HandleHello
    \/ HandleSuspend
    \/ HandleResume
    \/ HandleShapeChanged
    \/ HandleClipboardGrabbed
    \/ Enter
    \/ Leave
    \/ SetClipboard
    \/ GrabClipboard
    \/ HandleGameDeviceTimingResp
    \/ HandleGameDeviceFeedback
    \/ Destroy

Spec == Init /\ [][Next]_vars

\* The event queue delivers the one-shot timer's event: while the timer
\* handler stays registered on a live session it eventually runs.
FairSpec == Spec /\ WF_vars(HandleConnectTimeout)

----------------------------------------------------------------------------
\* The states of the session, read off the member fields and the transport.

Idle          == ~m_stream
Connecting    == m_stream /\ ~m_server /\ sock = "connecting"
AwaitingHello == m_stream /\ ~m_server /\ sock = "connected"
Active        == m_server

\* The member fields and the resources behind them (everything but the
\* record of the last handler).
fields == << m_stream, m_timer, m_server, m_ready, m_active, m_suspended,
             m_connectOnResume, m_ownClipboard, m_sentClipboard, m_timeClipboard,
             m_dataClipboard, marshalled,
             handlers, sock, screenEnabled, addrNetwork, liveStreams, liveTimers >>

fieldsButFlag == << m_stream, m_timer, m_server, m_ready, m_active, m_suspended,
                    m_ownClipboard, m_sentClipboard, m_timeClipboard,
                    m_dataClipboard, marshalled,
                    handlers, sock, screenEnabled, addrNetwork, liveStreams,
                    liveTimers >>

Count(seq, x) == Cardinality({i \in DOMAIN seq : seq[i] = x})
Called(name)  == \E i \in DOMAIN log : log[i] = name

\* (major, minor) >= (kProtocolMajorVersion, kProtocolMinorVersion), lexicographically
LexGE(major, minor) ==
    \/ major > kProtocolMajorVersion
    \/ (major = kProtocolMajorVersion /\ minor >= kProtocolMinorVersion)

HelloAccepted == last.op = "handleHello" /\ last.ok /\ LexGE(last.major, last.minor)
HelloRejected == last.op = "handleHello" /\ last.ok /\ ~LexGE(last.major, last.minor)

----------------------------------------------------------------------------
\* C1: in every reachable state, if the handshake timer is present then the
\* session is Connecting or AwaitingHello: a stream exists and no server
\* proxy exists.
C1_TimerOnlyWhileConnecting ==
    m_timer => (m_stream /\ ~m_server /\ (Connecting \/ AwaitingHello))

\* the timer is still present in AwaitingHello, after the transport connected
C1_Witness ==
    m_timer /\ AwaitingHello /\ last.op = "handleConnected"

\* C2 as stated: the handleHello transition that accepts a Hello writes
\* HelloBack, cancels the timer, constructs the server proxy, sets ready=true,
\* enables the screen and emits Connected.
C2_Original ==
    HelloAccepted =>
        /\ Called("writeHelloBack") /\ ~m_timer /\ m_server
        /\ m_ready /\ screenEnabled
        /\ \E i \in DOMAIN out : out[i].type = "Connected"

\* C2 amended: the handleHello transition that accepts a Hello writes
\* HelloBack, constructs the server proxy and cancels the timer, and leaves
\* ready=false, the screen disabled and no event emitted; ready=true, the
\* enabled screen and the Connected event are the work of handshakeComplete().
C2_HelloThenHandshakeComplete ==
    /\ HelloAccepted =>
            /\ Called("writeHelloBack") /\ ~m_timer /\ m_server
            /\ ~m_ready /\ ~screenEnabled /\ out = << >>
    /\ last.op = "handshakeComplete" =>
            /\ m_ready /\ screenEnabled /\ m_server /\ ~m_timer
            /\ out = << Event("Connected", "", NoVer, FALSE) >>

\* handshakeComplete() ran on the proxy that an accepted Hello constructed
C2_Witness ==
    last.op = "handshakeComplete" /\ from = "Active" /\ m_ready /\ Len(out) = 1

\* C3: a connect() made while a stream exists changes nothing, and at most
\* one pipeline and at most one handshake timer exist in any reachable state.
C3_SecondConnectNoOp ==
    /\ [](/\ liveStreams = (IF m_stream THEN 1 ELSE 0)
          /\ liveTimers = (IF m_timer THEN 1 ELSE 0))
    /\ [][(m_stream /\ last'.op = "connect") =>
              (UNCHANGED fields /\ log' = << >> /\ out' = << >>)]_vars

\* connect() was called while Connecting, with the stream of the first call
C3_Witness ==
    last.op = "connect" /\ from = "Connecting" /\ m_stream /\ log = << >>

\* C4: a connect() made while suspended builds no stream, starts no timer and
\* issues no transport connect, it only records connect-on-resume; the resume
\* that follows makes exactly one connect attempt.
C4_ConnectWhileSuspended ==
    /\ [][(m_suspended /\ last'.op = "connect") =>
              /\ m_connectOnResume' /\ ~m_stream' /\ ~m_timer'
              /\ log' = << >> /\ out' = << >>
              /\ UNCHANGED fieldsButFlag]_vars
    /\ [][(m_suspended /\ last.op = "connect" /\ last'.op = "handleResume") =>
              (Count(log', "try") = 1 /\ ~m_connectOnResume')]_vars

\* a connect() made while suspended has recorded the request and built nothing
C4_Witness ==
    /\ last.op = "connect" /\ from = "Idle"
    /\ m_suspended /\ m_connectOnResume /\ ~m_stream /\ log = << >>

\* C5: a suspend tears the session down and emits Disconnected;
\* connect-on-resume is true after it exactly if the server proxy existed
\* when it arrived; the resume that follows clears the flag and attempts
\* connect() exactly once if the flag was set (and not at all otherwise).
C5_SuspendThenResume ==
    /\ [][last'.op = "handleSuspend" =>
              /\ m_connectOnResume' = m_server
              /\ m_suspended' /\ ~m_stream' /\ ~m_timer' /\ ~m_server'
              /\ out' = << Event("Disconnected", "", NoVer, FALSE) >>]_vars
    /\ [][(last.op = "handleSuspend" /\ last'.op = "handleResume") =>
              /\ ~m_connectOnResume' /\ ~m_suspended'
              /\ Count(log', "try") = (IF m_connectOnResume THEN 1 ELSE 0)]_vars

\* a suspend received in Active has torn the session down and set the flag
C5_Witness ==
    /\ last.op = "handleSuspend" /\ from = "Active"
    /\ m_connectOnResume /\ Idle
    /\ out = << Event("Disconnected", "", NoVer, FALSE) >>

\* C6: a well-formed Hello is accepted exactly when its version is
\* lexicographically >= the compiled one; a rejected Hello emits
\* ConnectionFailed naming the version, writes no HelloBack, constructs no
\* server proxy and releases the stream and the timer.
C6_VersionCheck ==
    /\ HelloAccepted => (m_server /\ m_stream /\ Called("writeHelloBack") /\ out = << >>)
    /\ HelloRejected =>
            /\ out = << Event("ConnectionFailed", "incompatible version",
                               << last.major, last.minor >>, TRUE) >>
            /\ ~Called("writeHelloBack") /\ ~Called("setupScreen")
            /\ ~m_server /\ ~m_stream /\ ~m_timer
            /\ liveStreams = 0 /\ liveTimers = 0

\* a Hello of the compiled major version and an older minor version was rejected
C6_Witness ==
    /\ HelloRejected /\ last.major = kProtocolMajorVersion
    /\ last.minor = kProtocolMinorVersion - 1
    /\ Len(out) = 1

\* C7: when the handshake timer fires the session returns to Idle (stream
\* destroyed, timer removed, connect and stream subscriptions released) with
\* exactly one ConnectionFailed("Timed out"); in Active the timer event has
\* no handler.
C7_Timeout ==
    /\ last.op = "handleConnectTimeout" =>
            /\ Idle /\ ~m_timer /\ ~m_server
            /\ liveStreams = 0 /\ liveTimers = 0
            /\ \A k \in ConnectingKeys \cup ConnectionKeys \cup TimerKeys :
                   handlers[k] = NoHandler
            /\ out = << Event("ConnectionFailed", "Timed out", NoVer, TRUE) >>
    /\ Active => (handlers["timer"] = NoHandler /\ ~m_timer /\ liveTimers = 0)

\* the timer fired in AwaitingHello
C7_Witness ==
    last.op = "handleConnectTimeout" /\ from = "AwaitingHello" /\ Idle

\* The failure paths: an exception in connect(), a transport connect
\* failure, the timeout, a malformed or too old Hello, an output error, a
\* peer disconnect or half-shutdown.
FailurePath ==
    \/ last.op \in {"connect", "handleResume"} /\ Called("try") /\ out # << >>
    \/ last.op \in {"handleConnectionFailed", "handleConnectTimeout",
                     "handleOutputError", "handleDisconnected"}
    \/ last.op = "handleHello" /\ (~last.ok \/ HelloRejected)

Cleanups == {"cleanupTimer", "cleanupScreen", "cleanupConnecting",
             "cleanupConnection", "deleteStream"}

\* C8 as stated: on every failure path every cleanup call comes before the
\* lifecycle event is emitted.
C8_Original ==
    FailurePath =>
        \A i, j \in DOMAIN log :
            (log[i] = "emit" /\ log[j] \in Cleanups) => j < i

\* C8 amended: every failure path performs the full teardown in the handler
\* that emits the lifecycle event, so that no timer, server proxy or stream
\* is left when the handler returns; the teardown comes before the emission
\* on every path but handleHello's two, which emit first and clean up after.
C8_TeardownWithinHandler ==
    FailurePath =>
        /\ ~m_timer /\ ~m_server /\ ~m_stream
        /\ liveStreams = 0 /\ liveTimers = 0
        /\ Called("cleanupTimer")
        /\ Called("cleanupConnection") \/ Called("deleteStream")
        /\ Len(out) = 1 /\ out[1].type \in {"ConnectionFailed", "Disconnected"}
        /\ Count(log, "emit") = 1
        /\ IF last.op = "handleHello"
           THEN log[1] = "emit"
           ELSE log[Len(log)] = "emit"

\* a malformed Hello: the event was emitted first, the teardown followed
C8_Witness ==
    /\ last.op = "handleHello" /\ ~last.ok
    /\ log = << "emit", "cleanupTimer", "cleanupConnection" >>

\* C9: an output error, a peer disconnect or a half-shutdown handled while
\* a stream exists returns the session to Idle and emits exactly one
\* Disconnected event and no ConnectionFailed.
C9_StreamErrorIsDisconnected ==
    last.op \in {"handleOutputError", "handleDisconnected"} =>
        /\ Idle /\ ~m_timer /\ ~m_server /\ ~m_ready
        /\ liveStreams = 0 /\ liveTimers = 0
        /\ out = << Event("Disconnected", "", NoVer, FALSE) >>

\* an output error handled in Active
C9_Witness ==
    last.op = "handleOutputError" /\ from = "Active" /\ Len(out) = 1

\* The handler table the current state calls for.
ExpectedHandlers ==
    [k \in EventKeys |->
        CASE k = "suspend" -> "handleSuspend"
          [] k = "resume" -> "handleResume"
          [] k = "gameDeviceTimingResp" -> "handleGameDeviceTimingResp"
          [] k = "gameDeviceFeedback" -> "handleGameDeviceFeedback"
          [] k = "connected" /\ Connecting -> "handleConnected"
          [] k = "connectionFailed" /\ Connecting -> "handleConnectionFailed"
          [] k = "timer" /\ (Connecting \/ AwaitingHello) -> "handleConnectTimeout"
          [] k = "inputReady" /\ AwaitingHello -> "handleHello"
          [] k = "inputReady" /\ Active -> "CServerProxy::handleData"
          [] k = "outputError" /\ (AwaitingHello \/ Active) -> "handleOutputError"
          [] k \in {"disconnected", "inputShutdown", "outputShutdown"}
                /\ (AwaitingHello \/ Active) -> "handleDisconnected"
          [] k = "shapeChanged" /\ Active -> "handleShapeChanged"
          [] k = "clipboardGrabbed" /\ Active -> "handleClipboardGrabbed"
          [] OTHER -> NoHandler]

\* C10: after any sequence of handlers the subscriptions held are those the
\* current state calls for.
C10_SubscriptionsMatchState ==
    life = "running" => handlers = ExpectedHandlers

\* socket->connect() threw after setupConnecting() and setupTimer()
C10_Witness ==
    /\ last.op = "connect" /\ last.outcome = "connectThrows"
    /\ Called("setupConnecting") /\ Called("setupTimer") /\ Idle

\* C11: destroying the session unregisters every event subscription it
\* established, the four made in the constructor included.
C11_Original ==
    life = "destroyed" => \A k \in EventKeys : handlers[k] = NoHandler

\* C16: disconnect(msg), called in any state, leaves no timer, no server
\* proxy and no stream, and emits exactly one event: ConnectionFailed(msg)
\* with retry = true if msg is present, Disconnected otherwise.
C16_Disconnect ==
    last.op = "disconnect" =>
        /\ ~m_timer /\ ~m_server /\ ~m_stream
        /\ liveTimers = 0 /\ liveStreams = 0
        /\ out = << IF last.hasMsg
                    THEN Event("ConnectionFailed", "msg", NoVer, TRUE)
                    ELSE Event("Disconnected", "", NoVer, FALSE) >>

\* disconnect(msg) called on an Active session
C16_Witness ==
    /\ last.op = "disconnect"
    /\ last.hasMsg
    /\ from = "Active"
    /\ out = << Event("ConnectionFailed", "msg", NoVer, TRUE) >>

\* The handler that ran last queued a Disconnected or ConnectionFailed event.
TerminalEmitted ==
    \E i \in DOMAIN out : out[i].type \in {"Disconnected", "ConnectionFailed"}

\* C18 as stated: every terminal event ends a connect attempt, so a session
\* that is Idle emits one only in a step whose connect() passed its guards.
C18_Original ==
    [][(Idle /\ TerminalEmitted') => Called("try")']_vars

\* C18, amended: a terminal event is emitted while a stream exists, or by a
\* connect() that passed its guards, or by disconnect() or the suspend
\* handler, which emit whether or not a connect attempt is in progress.
C18_TerminalEvents ==
    [][TerminalEmitted' =>
          \/ m_stream
          \/ Called("try")'
          \/ last'.op \in {"disconnect", "handleSuspend"}]_vars

\* disconnect() called on an Idle session emits Disconnected
C18_Witness ==
    /\ last.op = "disconnect"
    /\ from = "Idle"
    /\ ~last.hasMsg
    /\ out = << Event("Disconnected", "", NoVer, FALSE) >>

\* C20: while suspended = true the session holds no stream, no handshake
\* timer and no server proxy, and ready = false.
C20_SuspendedHoldsNothing ==
    m_suspended =>
        /\ ~m_stream /\ ~m_timer /\ ~m_server /\ ~m_ready
        /\ liveStreams = 0 /\ liveTimers = 0

\* the suspend handler has just torn down a session that awaited the Hello
C20_Witness ==
    /\ m_suspended
    /\ last.op = "handleSuspend"
    /\ from = "AwaitingHello"
    /\ ~m_connectOnResume

----------------------------------------------------------------------------
\* Clipboard claims.

\* the payloads of slot id among the calls the last handler made on m_server
Payloads(id) ==
    {i \in DOMAIN fwd : fwd[i].call = "onClipboardChanged" /\ fwd[i].id = id}

\* C12: a local grab of slot id while active transmits no payload; the next
\* leave() (the slot is owned and not yet sent) transmits the slot's
\* marshalled payload once; a further leave() with no new grab (owned and
\* sent) and contents that marshal to the bytes last sent transmits nothing
\* for the slot.
C12_LeaveFlush ==
    [][/\ (last'.op = "handleClipboardGrabbed" /\ m_server /\ m_active) =>
            fwd' = << ServerCall("onGrabClipboard", last'.id, << >>) >>
       /\ last'.op = "leave" =>
            \A id \in Slots :
                /\ (m_ownClipboard[id] /\ ~m_sentClipboard[id]) =>
                      /\ Cardinality(Payloads(id)') = 1
                      /\ \A i \in Payloads(id)' :
                            fwd'[i].data = Marshall(last'.clips[id].data)
                /\ (/\ m_ownClipboard[id] /\ m_sentClipboard[id]
                    /\ Marshall(last'.clips[id].data) = m_dataClipboard[id]) =>
                      Payloads(id)' = {}]_vars

\* a leave() has found slot 0 owned, sent and unchanged, and transmitted
\* nothing
C12_Witness ==
    /\ last.op = "leave"
    /\ m_ownClipboard[0] /\ m_sentClipboard[0]
    /\ last.clips[0].data = << 1 >>
    /\ m_dataClipboard[0] = Marshall(<< 1 >>)
    /\ fwd = << >>

\* C13 as stated: when owned-locally goes from false to true, sent-to-remote
\* becomes false, last-seen-timestamp 0 and last-sent-payload empty.
C13_Original ==
    [][\A id \in Slots :
          (~m_ownClipboard[id] /\ m_ownClipboard'[id]) =>
              /\ ~m_sentClipboard'[id]
              /\ m_timeClipboard'[id] = 0
              /\ m_dataClipboard'[id] = EmptyString]_vars

\* C13, amended: owned-locally goes from false to true only in
\* handleClipboardGrabbed for that slot.  While active the handler returns
\* with sent = false and time = 0, the payload kept as it was and nothing
\* transmitted; while not active it sends at once, whatever the earlier time
\* and payload were, and returns with sent = true, the fetched time and the
\* marshalled payload.
C13_GrabResets ==
    [][\A id \in Slots :
          (~m_ownClipboard[id] /\ m_ownClipboard'[id]) =>
              /\ last'.op = "handleClipboardGrabbed" /\ last'.id = id
              /\ IF m_active
                 THEN /\ ~m_sentClipboard'[id]
                      /\ m_timeClipboard'[id] = 0
                      /\ m_dataClipboard'[id] = m_dataClipboard[id]
                      /\ Payloads(id)' = {}
                 ELSE /\ m_sentClipboard'[id]
                      /\ m_timeClipboard'[id] = last'.clips[id].time
                      /\ m_dataClipboard'[id] = Marshall(last'.clips[id].data)
                      /\ fwd' = << ServerCall("onGrabClipboard", id, << >>),
                                   ServerCall("onClipboardChanged", id,
                                              m_dataClipboard'[id]) >>]_vars

\* a grab of a slot that was not owned, made while the screen is not active
C13_Witness ==
    /\ last.op = "handleClipboardGrabbed" /\ ~last.wasOwned
    /\ ~m_active
    /\ m_ownClipboard[last.id] /\ m_sentClipboard[last.id]
    /\ Len(fwd) = 2

\* For every slot, sent-to-remote implies that last-sent-payload is the
\* payload marshalled last for the slot.
SentIsMarshalled ==
    \A id \in Slots :
        m_sentClipboard[id] => m_dataClipboard[id] = marshalled[id]

C15_RemoteSetOrGrab ==
    [][last'.op \in {"setClipboard", "grabClipboard"} =>
          /\ ~m_ownClipboard'[last'.id] /\ ~m_sentClipboard'[last'.id]
          /\ \A j \in Slots \ {last'.id} :
                /\ m_ownClipboard'[j] = m_ownClipboard[j]
                /\ m_sentClipboard'[j] = m_sentClipboard[j]]_vars

\* setClipboard(0) with slot 1 still owned and sent
C15_Witness ==
    /\ last.op = "setClipboard" /\ last.id = 0
    /\ ~m_ownClipboard[0] /\ ~m_sentClipboard[0]
    /\ m_ownClipboard[1] /\ m_sentClipboard[1]

----------------------------------------------------------------------------
\* Claims about the server proxy pointer and the assertions.

ForwardingOps == {"handleShapeChanged", "handleClipboardGrabbed",
                  "handleGameDeviceTimingResp", "handleGameDeviceFeedback", "leave"}

\* C17: a handler that forwards to the server proxy runs only in states where
\* the proxy exists (none of them changes m_server, so the proxy the handler
\* found is the one it leaves).
C17_Original ==
    last.op \in ForwardingOps => m_server

\* C19: the assertions of setupTimer, setupScreen, setupConnecting,
\* setupConnection and sendClipboard hold whenever they are evaluated.
C19_AssertionsHold ==
    failed = {}

\* handleClipboardGrabbed has called sendClipboard on a new connection
C19_Witness ==
    /\ last.op = "handleClipboardGrabbed"
    /\ Called("sendClipboard")
    /\ m_server
    /\ failed = {}

----------------------------------------------------------------------------
\* Liveness of the handshake.

\* C21: under fair delivery of the timer event, a session that has entered
\* Connecting or AwaitingHello eventually reaches Active or returns to Idle
\* with a ConnectionFailed or Disconnected event emitted (or has been
\* destroyed by the application, which ends the session).
C21_Original ==
    (Connecting \/ AwaitingHello) ~>
        \/ Active
        \/ Idle /\ TerminalEmitted
        \/ life = "destroyed"

====
